---- MODULE Spec2Model ----
(***************************************************************************)
(* A model of airfoildb: the curvature-based B-spline resampling           *)
(* (airfoildb/bspline.py), the two export functions (airfoildb/io.py) and  *)
(* the two commands of the command line interface (airfoildb/cli.py).      *)
(*                                                                         *)
(* Numbers are exact rationals [n, d] in lowest terms; d = 0 stands for    *)
(* the floating-point NaN that numpy produces for 0/0.  scipy's spline     *)
(* fit is a library: a SampleSet carries, beside its points, the           *)
(* derivatives that the fitted curve has on the dense grid (geom), so the  *)
(* fit is a function of the input and every curve shape of the bounded     *)
(* sets is considered.                                                     *)
(***************************************************************************)
EXTENDS Integers, Sequences, FiniteSets, TLC

VARIABLES
    \* a direct call of curvature_based_bspline: its arguments, what it
    \* computed, and where the caller is
    original, npoints, k, smoother, run, pc,
    \* a command of the command line interface and its options
    cmd, force, num_points, degree, unsmoother,
    \* the files of the database directory and of the output directory
    database, outdir,
    \* uniformize and the script: the files still to convert; download: the
    \* pool's jobs
    queue, jobs,
    \* how far the command is, how many times it has been run, and how the
    \* run before this one ended
    status, runs, prev,
    \* the database directory and the output directory as the current run of
    \* the command found them
    db0, out0,
    \* the numbers of conversions or fetches invoked and of files written
    calls, writes

pipeVars == <<original, npoints, k, smoother, run, pc>>
cliVars == <<cmd, force, num_points, degree, unsmoother, database, outdir,
             queue, jobs, status, runs, prev, db0, out0, calls, writes>>
vars == <<original, npoints, k, smoother, run, pc,
          cmd, force, num_points, degree, unsmoother, database, outdir,
          queue, jobs, status, runs, prev, db0, out0, calls, writes>>

----------------------------------------------------------------------------
(* Bounds of the model.                                                    *)

\* Length of the dense grid uu (the code uses 1000 points).
GridSize == 3
\* Longest SampleSet.
MaxPts == 3
\* Largest spline degree tried (0 is tried too; the library accepts 1..5).
MaxDegree == 3
\* Largest requested number of output points (-1 and 0 are tried too).
MaxNPoints == 3
\* Largest curvature bias (0 is tried too).
MaxSmoother == 1
\* Number of different points a SampleSet is drawn from.
NumPointValues == 2
\* Longest list of URLs the download command is given.
MaxJobs == 2
\* Number of times a command is run on the same directories.
MaxRuns == 2

----------------------------------------------------------------------------
(* Exact arithmetic standing for numpy's float64 arrays.                   *)

Abs(x) == IF x < 0 THEN -x ELSE x

\* The element of a one-element set.
Only(S) == CHOOSE x \in S : TRUE

RECURSIVE Gcd(_, _)
Gcd(a, b) == IF b = 0 THEN a ELSE Gcd(b, a % b)

\* The value of 0/0.
NaN == [n |-> 0, d |-> 0]

IsNaN(x) == x.d = 0

Rat(num, den) ==
    LET g == Gcd(Abs(num), den)
    IN  [n |-> num \div g, d |-> den \div g]

Zero == [n |-> 0, d |-> 1]
One == [n |-> 1, d |-> 1]
FromInt(i) == [n |-> i, d |-> 1]

Add(x, y) ==
    IF IsNaN(x) \/ IsNaN(y) THEN NaN
    ELSE Rat(x.n * y.d + y.n * x.d, x.d * y.d)

Sub(x, y) ==
    IF IsNaN(x) \/ IsNaN(y) THEN NaN
    ELSE Rat(x.n * y.d - y.n * x.d, x.d * y.d)

Mul(x, y) ==
    IF IsNaN(x) \/ IsNaN(y) THEN NaN
    ELSE Rat(x.n * y.n, x.d * y.d)

\* x / y for y > 0 or x = y = 0 (no other division occurs in the pipeline).
Div(x, y) ==
    IF IsNaN(x) \/ IsNaN(y) \/ y.n = 0 THEN NaN
    ELSE IF y.n > 0 THEN Rat(x.n * y.d, x.d * y.n)
    ELSE Rat(-(x.n * y.d), x.d * (-y.n))

\* Comparisons with NaN are false, as in IEEE arithmetic.
Less(x, y) == ~IsNaN(x) /\ ~IsNaN(y) /\ x.n * y.d < y.n * x.d
Leq(x, y) == ~IsNaN(x) /\ ~IsNaN(y) /\ x.n * y.d <= y.n * x.d

----------------------------------------------------------------------------
(* SampleSets.                                                             *)

\* Ordered points; a point is one of NumPointValues values.
PtSeqs == UNION {[1..m -> 1..NumPointValues] : m \in 0..MaxPts}

\* The derivatives of a fitted curve at a grid point: vel is (dx, dy), acc is
\* (ddx, ddy).  One point of zero velocity, one of a straight piece, and two
\* of curved pieces (curvature 1 and 1/4); dx*dx + dy*dy is a perfect square
\* in each.
GeomPoints ==
    {[vel |-> <<0, 0>>, acc |-> <<0, 0>>],
     [vel |-> <<1, 0>>, acc |-> <<0, 0>>],
     [vel |-> <<1, 0>>, acc |-> <<1, 1>>],
     [vel |-> <<0, 2>>, acc |-> <<1, 1>>]}

Geoms == [1..GridSize -> GeomPoints]

\* The geometry used where the fit does not get as far as evaluating one.
NoGeom == [i \in 1..GridSize |-> [vel |-> <<1, 0>>, acc |-> <<0, 0>>]]

HasAdjacentDuplicate(pts) ==
    \E i \in 1..(Len(pts) - 1) : pts[i] = pts[i + 1]

Distinct(pts) == Cardinality({pts[i] : i \in 1..Len(pts)})

----------------------------------------------------------------------------
(* The library calls of curvature_based_bspline.                           *)

\* scipy.interpolate.splprep(original, k=k, s=s): "ok", or the exception
\* raised.  m <= k and k outside 1..5 raise TypeError; two equal consecutive
\* points (the chord-length parameters do not increase) raise ValueError.
splprep(orig, kk) ==
    IF ~(1 <= kk /\ kk <= 5) THEN "TypeError"
    ELSE IF Len(orig.pts) <= kk THEN "TypeError"
    ELSE IF HasAdjacentDuplicate(orig.pts) THEN "ValueError"
    ELSE "ok"

\* scipy.interpolate.splev(x, tck, der): the order must satisfy 0 <= der <= k.
splev_der(der, kk) == IF 0 <= der /\ der <= kk THEN "ok" ELSE "ValueError"

\* np.linspace(start, stop, num) for num >= 0: num values, the last one stop.
linspace_noendpoint(start, stop, num) ==
    [j \in 1..num |->
        Add(start, Mul(FromInt(j - 1), Div(Sub(stop, start), FromInt(num))))]

linspace(start, stop, num) ==
    IF num = 1 THEN <<Add(Mul(Zero, Sub(stop, start)), start)>>
    ELSE [j \in 1..num |->
            IF j = num THEN stop
            ELSE Add(Mul(FromInt(j - 1),
                         Div(Sub(stop, start), FromInt(num - 1))), start)]

\* (dx * dx + dy * dy) ** 1.5
pow15(q) ==
    LET r == CHOOSE r \in 0..q : r * r = q
    IN  r * r * r

\* np.abs(ddx * dy - dx * ddy) / (dx * dx + dy * dy) ** 1.5 + smoother at one
\* grid point.  The numerator is 0 wherever the denominator is, so the
\* division gives NaN there (numpy warns and goes on).
curvature(g, sm) ==
    LET dx == g.vel[1]
        dy == g.vel[2]
        ddx == g.acc[1]
        ddy == g.acc[2]
    IN  Add(Div(FromInt(Abs(ddx * dy - dx * ddy)),
                FromInt(pow15(dx * dx + dy * dy))),
            FromInt(sm))

\* scipy.integrate.cumtrapz(y, x, initial=0.0)
RECURSIVE cumtrapz_at(_, _, _)
cumtrapz_at(y, x, i) ==
    IF i = 1 THEN Zero
    ELSE Add(cumtrapz_at(y, x, i - 1),
             Div(Mul(Sub(x[i], x[i - 1]), Add(y[i], y[i - 1])), FromInt(2)))

cumtrapz(y, x) == [i \in 1..Len(x) |-> cumtrapz_at(y, x, i)]

\* ndarray.max(): NaN if any entry is NaN.
RECURSIVE amax_upto(_, _)
amax_upto(a, i) ==
    IF i = 1 THEN a[1]
    ELSE LET m == amax_upto(a, i - 1)
         IN  IF IsNaN(m) \/ IsNaN(a[i]) THEN NaN
             ELSE IF Less(m, a[i]) THEN a[i] ELSE m

amax(a) == amax_upto(a, Len(a))

\* interp1d's bounds check: a value of x_new outside [x[0], x[-1]] raises
\* ValueError (a NaN compares false and passes).
check_bounds(xp, x_new) ==
    IF \E j \in 1..Len(x_new) :
          Less(x_new[j], xp[1]) \/ Less(xp[Len(xp)], x_new[j])
    THEN "ValueError" ELSE "ok"

\* The linear interpolation behind interp1d(xp, fp)(x), for xp in increasing
\* order and x within [xp[0], xp[-1]] or NaN: the segment is the last j with
\* xp[j] <= x.
interp_nearest(xp, fp, x) ==
    IF IsNaN(x) THEN x
    ELSE fp[CHOOSE i \in 1..Len(xp) :
                Leq(xp[i], x) /\ \A h \in (i + 1)..Len(xp) : ~Leq(xp[h], x)]

interp(xp, fp, x) ==
    IF IsNaN(x) THEN x
    ELSE LET j == CHOOSE i \in 1..Len(xp) :
                     Leq(xp[i], x) /\ \A h \in (i + 1)..Len(xp) : ~Leq(xp[h], x)
         IN  IF j = Len(xp) THEN fp[j]
             ELSE IF xp[j] = x THEN fp[j]
             ELSE Add(Mul(Div(Sub(fp[j + 1], fp[j]), Sub(xp[j + 1], xp[j])),
                          Sub(x, xp[j])),
                      fp[j])

----------------------------------------------------------------------------
(* curvature_based_bspline.                                                *)

\* What a call leaves behind: how it ended ("ok", or the exception raised),
\* the call that raised, and the arrays computed up to there.
NoRun ==
    [outcome |-> "none", at |-> "none", uu |-> <<>>, curv |-> <<>>,
     curv_int |-> <<>>, curv_int_sample |-> <<>>, u_new |-> <<>>,
     result |-> <<>>]

Raised(r, exc, where) == [r EXCEPT !.outcome = exc, !.at = where]

\* scipy.interpolate.splev(u_new, tck, der=0) transposed: one row per
\* parameter, the point of the fitted curve at that parameter.
splev_rows_droplast(u) == [i \in 1..(Len(u) - 1) |-> [u |-> u[i]]]

splev_rows(u) == [i \in 1..Len(u) |-> [u |-> u[i]]]

\* The body of curvature_based_bspline.  empty_raises: whether the library's
\* splev rejects an empty array of parameters (it depends on its version).
resample(orig, n, kk, sm, empty_raises) ==
    LET r1 == [NoRun EXCEPT !.uu = linspace(Zero, One, GridSize)]
        r2 == [r1 EXCEPT !.curv =
                   [i \in 1..GridSize |-> curvature(orig.geom[i], sm)]]
        r3 == [r2 EXCEPT !.curv_int = cumtrapz(r2.curv, r2.uu)]
        r4 == [r3 EXCEPT !.curv_int_sample =
                   linspace(Zero, amax(r3.curv_int), n)]
        r5 == [r4 EXCEPT !.u_new =
                   [j \in 1..Len(r4.curv_int_sample) |->
                       interp(r4.curv_int, r4.uu, r4.curv_int_sample[j])]]
    IN  IF splev_der(1, kk) # "ok" THEN Raised(r1, splev_der(1, kk), "splev")
        ELSE IF splev_der(2, kk) # "ok"
        THEN Raised(r1, splev_der(2, kk), "splev")
        ELSE IF n < 0 THEN Raised(r3, "ValueError", "linspace")
        ELSE IF check_bounds(r4.curv_int, r4.curv_int_sample) # "ok"
        THEN Raised(r4, "ValueError", "interp1d")
        ELSE IF n = 0 /\ empty_raises THEN Raised(r5, "ValueError", "splev")
        ELSE [r5 EXCEPT !.outcome = "ok", !.at = "return",
                        !.result = splev_rows(r5.u_new)]

curvature_based_bspline(orig, n, kk, sm, empty_raises) ==
    IF splprep(orig, kk) # "ok"
    THEN Raised(NoRun, splprep(orig, kk), "splprep")
    ELSE resample(orig, n, kk, sm, empty_raises)

----------------------------------------------------------------------------
(* A direct call of curvature_based_bspline.                               *)

\* The fit and the derivative evaluations succeed on this input.
FitSucceeds(orig, kk) == splprep(orig, kk) = "ok" /\ splev_der(2, kk) = "ok"

IdleCli ==
    /\ cmd = "none"
    /\ force = FALSE
    /\ num_points = 0
    /\ degree = 0
    /\ unsmoother = 0
    /\ database = <<>>
    /\ outdir = <<>>
    /\ queue = <<>>
    /\ jobs = <<>>
    /\ status = "none"
    /\ runs = 0
    /\ prev = "none"
    /\ db0 = <<>>
    /\ out0 = <<>>
    /\ calls = 0
    /\ writes = 0

PipeInit ==
    /\ k \in 0..MaxDegree
    /\ npoints \in (-1)..MaxNPoints
    /\ smoother \in 0..MaxSmoother
    /\ \E p \in PtSeqs :
         \E g \in IF FitSucceeds([pts |-> p, geom |-> NoGeom], k)
                  THEN Geoms ELSE {NoGeom} :
            original = [pts |-> p, geom |-> g]
    /\ run = NoRun
    /\ pc = "call"
    /\ IdleCli

Call ==
    /\ pc = "call"
    /\ \E empty_raises \in BOOLEAN :
          run' = curvature_based_bspline(original, npoints, k, smoother,
                                         empty_raises)
    /\ pc' = "done"
    /\ UNCHANGED <<original, npoints, k, smoother>>
    /\ UNCHANGED cliVars

PipeNext == Call

PipeSpec == PipeInit /\ [][PipeNext]_vars

----------------------------------------------------------------------------
(* Files, directories and web pages.                                       *)

\* File names: a stem (1, 2, 3 in the order of "a" < "b" < "c") and an
\* extension.  A path is <<directory, name>>, a URL <<directory, name>>.
DatNames == {[stem |-> i, ext |-> ".dat"] : i \in {1, 2, 3}}
\* A file whose name begins with a dot (".0.dat"): stem 0 stands for it.
HiddenName == [stem |-> 0, ext |-> ".dat"]
IsHidden(nm) == nm.stem = 0
DbNames == DatNames \cup {[stem |-> 1, ext |-> ".txt"], HiddenName}
OutNames == {[pre |-> "uniform_", base |-> nm] : nm \in DbNames}

EmptySample == [pts |-> <<>>, geom |-> NoGeom]

\* A curve the fit accepts: curved at the first grid point, straight after.
Airfoil ==
    [pts |-> <<1, 2, 3>>,
     geom |-> [i \in 1..GridSize |->
                 [vel |-> <<1, 0>>,
                  acc |-> IF i = 1 THEN <<1, 1>> ELSE <<0, 0>>]]]
\* Two points: too few for a degree of 2 or more.
TooFew == [pts |-> <<1, 2>>, geom |-> NoGeom]
\* A repeated point: the least-squares system is singular.
Repeated == [pts |-> <<1, 1, 2>>, geom |-> NoGeom]
\* A single row: genfromtxt gives a one-dimensional array.
OneRow == [pts |-> <<1>>, geom |-> NoGeom]
\* What an earlier download left in the database directory.
OldSample == [pts |-> <<3, 2, 1>>, geom |-> NoGeom]

FileSamples == {Airfoil, TooFew, Repeated, OneRow}

Absent == [exists |-> FALSE, data |-> EmptySample]
Stored(sample) == [exists |-> TRUE, data |-> sample]

NoOutput == [exists |-> FALSE, data |-> <<>>]
\* An output file left by an earlier run with other options.
StaleOutput == [exists |-> TRUE, data |-> <<[u |-> FromInt(-1)]>>]

UrlSet ==
    {<<"coord_seligFmt", [stem |-> 1, ext |-> ".dat"]>>,
     <<"coord_seligFmt", [stem |-> 2, ext |-> ".dat"]>>,
     <<"coord_updates", [stem |-> 1, ext |-> ".dat"]>>}

UrlLists == UNION {[1..m -> UrlSet] : m \in 0..MaxJobs}

\* read_airfoil_data(url): the rows of the page at url, when get_url_content
\* finds the status ok (it raises HTTPError otherwise).
read_airfoil_data(url) ==
    IF url[1] = "coord_updates" THEN Repeated
    ELSE IF url[2].stem = 1 THEN Airfoil
    ELSE TooFew

----------------------------------------------------------------------------
(* airfoildb/io.py                                                         *)

PathKey(path) == 2 * path[2].stem + (IF path[2].ext = ".txt" THEN 1 ELSE 0)

RECURSIVE sorted(_)
sorted(S) ==
    IF S = {} THEN <<>>
    ELSE LET m == CHOOSE x \in S : \A y \in S : PathKey(x) <= PathKey(y)
         IN  <<m>> \o sorted(S \ {m})

\* sorted(glob.glob(f"{directory}/*{extension}")); the pattern "*" of glob
\* matches no name that begins with a dot.
list_files_in_directory(db, extension) ==
    sorted({<<"database", nm>> :
               nm \in {x \in DOMAIN db :
                          db[x].exists /\ x.ext = extension /\ ~IsHidden(x)}})

\* `not output.is_file() or force`
should_export_always(exists, frc) == TRUE

should_export(exists, frc) == ~exists \/ frc

\* out / f"uniform_{file.split('/')[-1]}"
rename_fn(file) == [pre |-> "uniform_", base |-> file[Len(file)]]

\* func(np.genfromtxt(file).T): a file of fewer than two rows is read as a
\* one-dimensional array, whose shape splprep cannot unpack (ValueError).
convert(sample, n, kk, sm, empty_raises) ==
    IF Len(sample.pts) < 2 THEN Raised(NoRun, "ValueError", "splprep")
    ELSE curvature_based_bspline(sample, n, kk, sm, empty_raises)

\* export_as_bspline: the output directory after the call, the exception
\* raised ("none" if none), and whether func and savetxt were invoked.
export_as_bspline(out, file, sample, n, kk, sm, frc, empty_raises) ==
    IF ~should_export(out[rename_fn(file)].exists, frc)
    THEN [outdir |-> out, raised |-> "none", invoked |-> 0, wrote |-> 0]
    ELSE Only({IF r.outcome # "ok"
               THEN [outdir |-> out, raised |-> r.outcome,
                     invoked |-> 1, wrote |-> 0]
               ELSE [outdir |-> [out EXCEPT ![rename_fn(file)] =
                                    [exists |-> TRUE, data |-> r.result]],
                     raised |-> "none", invoked |-> 1, wrote |-> 1] :
               r \in {convert(sample, n, kk, sm, empty_raises)}})

\* filename = url.split("/")[-1]
url_filename_fixed(url) == [stem |-> 1, ext |-> ".dat"]

url_filename(url) == url[Len(url)]

\* export_airfoil_data run on its own, from the test of the output file to
\* the end, with a fetch that succeeds: the directory after the call.
export_airfoil_data(db, url, frc) ==
    IF ~should_export(db[url_filename(url)].exists, frc) THEN db
    ELSE [db EXCEPT ![url_filename(url)] = Stored(read_airfoil_data(url))]

----------------------------------------------------------------------------
(* bin/bspline.py, the script.                                             *)

\* curvature_based_bspline of the script: line for line the code of
\* airfoildb/bspline.py.
bin_curvature_based_bspline(orig, n, kk, sm, empty_raises) ==
    curvature_based_bspline(orig, n, kk, sm, empty_raises)

\* [file for file in os.listdir(directory) if file.endswith(extension)]: the
\* names, which os.listdir gives in an order of its own.
bin_list_files_in_directory(db, extension) ==
    {x \in DOMAIN db : db[x].exists /\ x.ext = extension}

\* The orders in which a listing may give a set of names.
Orderings(S) ==
    {q \in [1..Cardinality(S) -> S] :
        \A i, j \in 1..Cardinality(S) : i # j => q[i] # q[j]}

\* os.path.join(out, "uniform_" + file.split("/")[-1])
bin_renaming(file) == [pre |-> "uniform_", base |-> file[Len(file)]]

\* func(np.genfromtxt(file).T)
bin_convert(sample, n, kk, sm, empty_raises) ==
    IF Len(sample.pts) < 2 THEN Raised(NoRun, "ValueError", "splprep")
    ELSE bin_curvature_based_bspline(sample, n, kk, sm, empty_raises)

\* export_as_bspline of the script.
bin_export_as_bspline(out, file, sample, n, kk, sm, frc, empty_raises) ==
    IF ~(~out[bin_renaming(file)].exists \/ frc)
    THEN [outdir |-> out, raised |-> "none", invoked |-> 0, wrote |-> 0]
    ELSE Only({IF r.outcome # "ok"
               THEN [outdir |-> out, raised |-> r.outcome,
                     invoked |-> 1, wrote |-> 0]
               ELSE [outdir |-> [out EXCEPT ![bin_renaming(file)] =
                                    [exists |-> TRUE, data |-> r.result]],
                     raised |-> "none", invoked |-> 1, wrote |-> 1] :
               r \in {bin_convert(sample, n, kk, sm, empty_raises)}})

\* The script with its options -n, -k, -s, --force, on a database directory
\* that may hold a file whose name begins with a dot.
ScriptInit ==
    /\ cmd = "script"
    /\ force \in BOOLEAN
    /\ num_points = MaxNPoints
    /\ degree \in 1..MaxDegree
    /\ unsmoother = MaxSmoother
    /\ \E dat \in [DatNames -> {Absent, Stored(Airfoil), Stored(TooFew)}] :
         \E hid \in {Absent, Stored(Airfoil)} :
            database = [nm \in DbNames |->
                           IF nm \in DatNames THEN dat[nm]
                           ELSE IF IsHidden(nm) THEN hid ELSE Absent]
    /\ \E old \in SUBSET {[stem |-> 1, ext |-> ".dat"]} :
          outdir = [o \in OutNames |->
                       IF o.base \in old THEN StaleOutput ELSE NoOutput]
    /\ queue = <<>>

----------------------------------------------------------------------------
(* airfoildb/cli.py: one of the two commands, or the script, run up to     *)
(* MaxRuns times on the same directories with the same options.            *)

IdlePipe ==
    /\ original = EmptySample
    /\ npoints = 0
    /\ k = 0
    /\ smoother = 0
    /\ run = NoRun
    /\ pc = "idle"

UniformizeInit ==
    /\ cmd = "uniformize"
    /\ force \in BOOLEAN
    /\ num_points = MaxNPoints
    /\ degree \in 1..MaxDegree
    /\ unsmoother = MaxSmoother
    /\ \E dat \in [DatNames -> {Absent} \cup {Stored(x) : x \in FileSamples}] :
         \* at most one file that the listing must leave out
         \E other \in SUBSET (DbNames \ DatNames) :
            /\ Cardinality(other) <= 1
            /\ database = [nm \in DbNames |->
                              IF nm \in DatNames THEN dat[nm]
                              ELSE IF nm \in other THEN Stored(Airfoil)
                              ELSE Absent]
    /\ \E old \in SUBSET DatNames :
          outdir = [o \in OutNames |->
                       IF o.base \in old THEN StaleOutput ELSE NoOutput]
    /\ queue = <<>>

DownloadInit ==
    /\ cmd = "download"
    /\ force \in BOOLEAN
    /\ num_points = 0
    /\ degree = 0
    /\ unsmoother = 0
    /\ \E old \in SUBSET DatNames :
          database = [nm \in DbNames |->
                         IF nm \in old THEN Stored(OldSample) ELSE Absent]
    /\ outdir = [o \in OutNames |-> NoOutput]
    \* list_airfoil_urls(): the links of the page, in its order
    /\ queue \in UrlLists

Init ==
    /\ IdlePipe
    /\ UniformizeInit \/ DownloadInit \/ ScriptInit
    /\ jobs = <<>>
    /\ status = "start"
    /\ runs = 1
    /\ prev = "none"
    /\ db0 = database
    /\ out0 = outdir
    /\ calls = 0
    /\ writes = 0

\* uniformize: the listing the loop runs over.
UniformizeList ==
    /\ cmd = "uniformize"
    /\ status = "start"
    /\ queue' = list_files_in_directory(database, ".dat")
    /\ status' = "running"
    /\ UNCHANGED <<cmd, force, num_points, degree, unsmoother, database,
                   outdir, jobs, runs, prev, db0, out0, calls, writes>>
    /\ UNCHANGED pipeVars

\* uniformize: one turn of the loop.  A ValueError is passed over; any other
\* exception leaves the loop and ends the command.
UniformizeStep ==
    /\ cmd = "uniformize"
    /\ status = "running"
    /\ queue # <<>>
    /\ \E empty_raises \in BOOLEAN :
         \E e \in {export_as_bspline(outdir, Head(queue),
                                     database[Head(queue)[2]].data,
                                     num_points, degree, unsmoother, force,
                                     empty_raises)} :
            /\ outdir' = e.outdir
            /\ calls' = calls + e.invoked
            /\ writes' = writes + e.wrote
            /\ IF e.raised \in {"none", "ValueError"}
               THEN queue' = Tail(queue) /\ status' = status
               ELSE queue' = queue /\ status' = "aborted"
    /\ UNCHANGED <<cmd, force, num_points, degree, unsmoother, database,
                   jobs, runs, prev, db0, out0>>
    /\ UNCHANGED pipeVars

UniformizeEnd ==
    /\ cmd = "uniformize"
    /\ status = "running"
    /\ queue = <<>>
    /\ status' = "finished"
    /\ UNCHANGED <<cmd, force, num_points, degree, unsmoother, database,
                   outdir, queue, jobs, runs, prev, db0, out0, calls, writes>>
    /\ UNCHANGED pipeVars

\* download: pool.map hands one job per URL to the pool, which has at least
\* four processes (four per CPU): every job of the list may run at once.
DownloadStart ==
    /\ cmd = "download"
    /\ status = "start"
    /\ jobs' = [i \in 1..Len(queue) |-> [pc |-> "check", data |-> EmptySample]]
    /\ status' = "running"
    /\ UNCHANGED <<cmd, force, num_points, degree, unsmoother, database,
                   outdir, queue, runs, prev, db0, out0, calls, writes>>
    /\ UNCHANGED pipeVars

\* export_airfoil_data, line 48: the test of the output file.
JobCheck(i) ==
    /\ cmd = "download"
    /\ status = "running"
    /\ jobs[i].pc = "check"
    /\ jobs' = [jobs EXCEPT ![i].pc =
                   IF should_export(database[url_filename(queue[i])].exists,
                                    force)
                   THEN "fetch" ELSE "done"]
    /\ UNCHANGED <<cmd, force, num_points, degree, unsmoother, database,
                   outdir, queue, status, runs, prev, db0, out0, calls, writes>>
    /\ UNCHANGED pipeVars

\* export_airfoil_data, line 50: read_airfoil_data(url), the argument.  The
\* request may fail (HTTPError), which ends the job.
JobFetch(i) ==
    /\ cmd = "download"
    /\ status = "running"
    /\ jobs[i].pc = "fetch"
    /\ \E status_ok \in BOOLEAN :
          jobs' = [jobs EXCEPT ![i] =
                      IF status_ok
                      THEN [pc |-> "write", data |-> read_airfoil_data(queue[i])]
                      ELSE [pc |-> "failed", data |-> EmptySample]]
    /\ calls' = calls + 1
    /\ UNCHANGED <<cmd, force, num_points, degree, unsmoother, database,
                   outdir, queue, status, runs, prev, db0, out0, writes>>
    /\ UNCHANGED pipeVars

\* export_airfoil_data, line 50: np.savetxt(output, ...).
JobWrite(i) ==
    /\ cmd = "download"
    /\ status = "running"
    /\ jobs[i].pc = "write"
    /\ database' = [database EXCEPT ![url_filename(queue[i])] =
                       Stored(jobs[i].data)]
    /\ jobs' = [jobs EXCEPT ![i].pc = "done"]
    /\ writes' = writes + 1
    /\ UNCHANGED <<cmd, force, num_points, degree, unsmoother, outdir,
                   queue, status, runs, prev, db0, out0, calls>>
    /\ UNCHANGED pipeVars

\* pool.map returns once every job has ended, and raises if one did.
DownloadEnd ==
    /\ cmd = "download"
    /\ status = "running"
    /\ \A i \in 1..Len(jobs) : jobs[i].pc \in {"done", "failed"}
    /\ status' = IF \E i \in 1..Len(jobs) : jobs[i].pc = "failed"
                 THEN "aborted" ELSE "finished"
    /\ UNCHANGED <<cmd, force, num_points, degree, unsmoother, database,
                   outdir, queue, jobs, runs, prev, db0, out0, calls, writes>>
    /\ UNCHANGED pipeVars

\* The same command is run again on what the last run left.
Rerun ==
    /\ status \in {"finished", "aborted"}
    /\ runs < MaxRuns
    /\ runs' = runs + 1
    /\ prev' = status
    /\ status' = "start"
    /\ db0' = database
    /\ out0' = outdir
    /\ jobs' = <<>>
    /\ queue' = IF cmd = "download" THEN queue ELSE <<>>
    /\ UNCHANGED <<cmd, force, num_points, degree, unsmoother, database,
                   outdir, calls, writes>>
    /\ UNCHANGED pipeVars

\* The script: the listing its loop runs over.
ScriptList ==
    /\ cmd = "script"
    /\ status = "start"
    /\ \E q \in Orderings(bin_list_files_in_directory(database, ".dat")) :
          \* os.path.join(args.database, file)
          queue' = [i \in 1..Len(q) |-> <<"database", q[i]>>]
    /\ status' = "running"
    /\ UNCHANGED <<cmd, force, num_points, degree, unsmoother, database,
                   outdir, jobs, runs, prev, db0, out0, calls, writes>>
    /\ UNCHANGED pipeVars

\* The script: one turn of the loop.  A ValueError is passed over; any other
\* exception ends the script.
ScriptStep ==
    /\ cmd = "script"
    /\ status = "running"
    /\ queue # <<>>
    /\ \E empty_raises \in BOOLEAN :
         \E e \in {bin_export_as_bspline(outdir, Head(queue),
                                         database[Head(queue)[2]].data,
                                         num_points, degree, unsmoother,
                                         force, empty_raises)} :
            /\ outdir' = e.outdir
            /\ calls' = calls + e.invoked
            /\ writes' = writes + e.wrote
            /\ IF e.raised \in {"none", "ValueError"}
               THEN queue' = Tail(queue) /\ status' = status
               ELSE queue' = queue /\ status' = "aborted"
    /\ UNCHANGED <<cmd, force, num_points, degree, unsmoother, database,
                   jobs, runs, prev, db0, out0>>
    /\ UNCHANGED pipeVars

ScriptEnd ==
    /\ cmd = "script"
    /\ status = "running"
    /\ queue = <<>>
    /\ status' = "finished"
    /\ UNCHANGED <<cmd, force, num_points, degree, unsmoother, database,
                   outdir, queue, jobs, runs, prev, db0, out0, calls, writes>>
    /\ UNCHANGED pipeVars

Next ==
    \/ UniformizeList
    \/ UniformizeStep
    \/ UniformizeEnd
    \/ DownloadStart
    \/ \E i \in 1..Len(jobs) : JobCheck(i)
    \/ \E i \in 1..Len(jobs) : JobFetch(i)
    \/ \E i \in 1..Len(jobs) : JobWrite(i)
    \/ DownloadEnd
    \/ ScriptList
    \/ ScriptStep
    \/ ScriptEnd
    \/ Rerun

Spec == Init /\ [][Next]_vars

----------------------------------------------------------------------------
(* Properties of a call of curvature_based_bspline (PipeSpec).             *)

Returned == pc = "done" /\ run.outcome = "ok"

\* The call got as far as the cumulative integral.
Integrated == pc = "done" /\ Len(run.curv_int) > 0

\* The call got as far as inverting the cumulative integral.
Inverted == Integrated /\ run.at \in {"return", "splev"} /\ npoints >= 0

StrictlyIncreasing(a) == \A i \in 1..(Len(a) - 1) : Less(a[i], a[i + 1])

NonDecreasing(a) == \A i \in 1..(Len(a) - 1) : Leq(a[i], a[i + 1])

ZeroVelocityAt(i) == original.geom[i].vel = <<0, 0>>

\* The piecewise-linear cumulative curvature integral at parameter u: the
\* line through (x[i], a[i]) and (x[i+1], a[i+1]) on the segment holding u.
CumulativeAt(a, x, u) ==
    IF IsNaN(u) THEN NaN
    ELSE LET i == CHOOSE h \in 1..(Len(x) - 1) : Leq(x[h], u) /\ Leq(u, x[h + 1])
         IN  Add(a[i], Div(Mul(Sub(a[i + 1], a[i]), Sub(u, x[i])),
                           Sub(x[i + 1], x[i])))

C3_Claimed ==
    (Returned /\ npoints >= 1 /\ smoother > 0) =>
        /\ run.curv_int[1] = Zero
        /\ Len(run.curv_int) = Len(run.uu)
        /\ StrictlyIncreasing(run.curv_int)

\* C4 (as claimed): inverting a strictly increasing cumulative integral
\* gives a non-decreasing u_new within [u_min, u_max] whose first value is
\* u_min and whose last value is u_max.
C4_Claimed ==
    (Inverted /\ StrictlyIncreasing(run.curv_int)) =>
        /\ NonDecreasing(run.u_new)
        /\ \A j \in 1..Len(run.u_new) :
              Leq(Zero, run.u_new[j]) /\ Leq(run.u_new[j], One)
        /\ Len(run.u_new) >= 1 =>
              /\ run.u_new[1] = Zero
              /\ run.u_new[Len(run.u_new)] = One

\* C4 (amended): inverting a strictly increasing cumulative integral gives
\* npoints values, non-decreasing and within [u_min, u_max]; the first is
\* u_min, and the last is u_max when npoints >= 2 (with npoints = 1 the one
\* value is u_min).
C4_Resampled ==
    (Inverted /\ StrictlyIncreasing(run.curv_int)) =>
        /\ Len(run.u_new) = npoints
        /\ NonDecreasing(run.u_new)
        /\ \A j \in 1..Len(run.u_new) :
              Leq(Zero, run.u_new[j]) /\ Leq(run.u_new[j], One)
        /\ npoints >= 1 => run.u_new[1] = Zero
        /\ npoints >= 2 => run.u_new[npoints] = One

C4_Witness ==
    /\ Returned
    /\ StrictlyIncreasing(run.curv_int)
    /\ npoints = 3
    /\ Less(Zero, run.u_new[2])
    /\ Less(run.u_new[2], One)
    /\ run.u_new[2] # Rat(1, 2)

\* C7 (as claimed): a SampleSet with fewer than k+1 distinct points (all
\* points identical included) ends in an error, never in a returned array.
C7_Claimed ==
    (pc = "done" /\ npoints >= 1 /\ Distinct(original.pts) < k + 1) =>
        run.outcome # "ok"

\* C8: every evenly spaced target t within [0, CumulativeArray.last] is the
\* piecewise-linear cumulative integral at the parameter u_new that the
\* inversion gives for it.
C8_RoundTrip ==
    Inverted =>
        \A j \in 1..Len(run.u_new) :
            LET t == run.curv_int_sample[j]
            IN  (Leq(Zero, t) /\ Leq(t, run.curv_int[GridSize])) =>
                    CumulativeAt(run.curv_int, run.uu, run.u_new[j]) = t

C8_Witness ==
    /\ Returned
    /\ npoints = 3
    /\ smoother > 0
    /\ Less(Zero, run.curv_int_sample[2])
    /\ \E i \in 1..GridSize : run.curv_int[i] # run.curv_int_sample[2]
    /\ \A i \in 1..GridSize : run.uu[i] # run.u_new[2]
    /\ CumulativeAt(run.curv_int, run.uu, run.u_new[2]) = run.curv_int_sample[2]

\* C9 (as claimed): for every non-negative smoother every entry of the
\* curvature sample is strictly positive (stated here on the curves with no
\* zero-velocity grid point, where every entry is defined).
C9_Claimed ==
    (/\ Returned
     /\ npoints >= 1
     /\ smoother >= 0
     /\ \A i \in 1..GridSize : ~ZeroVelocityAt(i)) =>
        \A i \in 1..Len(run.curv) : Less(Zero, run.curv[i])

\* C10 (as claimed): where a grid point has zero velocity, no undefined
\* value enters the curvature sample or the cumulative integral, and no
\* array computed from one is returned.
C10_Claimed ==
    (pc = "done" /\ npoints >= 1 /\ \E i \in 1..GridSize : ZeroVelocityAt(i)) =>
        /\ \A i \in 1..Len(run.curv) : ~IsNaN(run.curv[i])
        /\ \A i \in 1..Len(run.curv_int) : ~IsNaN(run.curv_int[i])
        /\ run.outcome = "ok" =>
              \A j \in 1..Len(run.result) : ~IsNaN(run.result[j].u)

----------------------------------------------------------------------------
(* Properties of the two commands (Spec).                                  *)

\* The loop of uniformize is about to take the file at the head of the list.
AtItem == cmd = "uniformize" /\ status = "running" /\ queue # <<>>

\* The output file of the item the loop is about to take.
ItemTarget == rename_fn(Head(queue))

\* The fit of a SampleSet fails: too few points, or a singular system.
FitError(sample, kk) == Len(sample.pts) < 2 \/ splprep(sample, kk) # "ok"

\* The last path segment of a URL.
Basename(url) == url[2]

DistinctBasenames(urls) ==
    \A i, j \in 1..Len(urls) : i # j => Basename(urls[i]) # Basename(urls[j])

Perms(n) == {p \in [1..n -> 1..n] : \A i, j \in 1..n : i # j => p[i] # p[j]}

\* The jobs of a list run one after the other, each to its end, with
\* fetches that succeed: the directory they leave.
RECURSIVE SeqRun(_, _, _)
SeqRun(db, urls, frc) ==
    IF urls = <<>> THEN db
    ELSE SeqRun(export_airfoil_data(db, Head(urls), frc), Tail(urls), frc)

\* C2 (as claimed): when the fit of the item that uniformize takes fails
\* (too few points, singular system), the step writes no output file, the
\* command is not ended by the failure, and the loop goes on to the
\* remaining items.
C2_Claimed ==
    [][(/\ AtItem
        /\ should_export(outdir[ItemTarget].exists, force)
        /\ FitError(database[Head(queue)[2]].data, degree))
       => /\ outdir' = outdir
          /\ writes' = writes
          /\ status' = "running"
          /\ queue' = Tail(queue)]_vars

\* C5 (as claimed): export_as_bspline writes its output file if and only if
\* the target does not exist or force is set, and a job of download that
\* found its target absent or force set goes on to write it; when the target
\* exists and force is not set nothing is invoked and nothing changes; a
\* re-run of a completed batch without force changes no file.
C5_Claimed ==
    [][/\ AtItem =>
            /\ (writes' = writes + 1) <=>
                   (~outdir[ItemTarget].exists \/ force)
            /\ (outdir[ItemTarget].exists /\ ~force) =>
                   outdir' = outdir /\ calls' = calls
       /\ (cmd = "download" /\ status = "running") =>
             \A i \in 1..Len(jobs) :
                /\ (jobs[i].pc = "check" /\ jobs'[i].pc # "check") =>
                      (jobs'[i].pc = "done" <=>
                          (database[url_filename(queue[i])].exists /\ ~force))
                /\ (jobs[i].pc = "fetch" /\ jobs'[i].pc # "fetch") =>
                      jobs'[i].pc = "write"
       /\ (runs >= 2 /\ prev = "finished" /\ ~force) =>
             outdir' = outdir /\ database' = database]_vars

\* C5 (amended): the conversion (the fetch) is invoked if and only if the
\* target does not exist, when the function tests it, or force is set; the
\* file is written if and only if, in addition, the conversion (the fetch)
\* returns without raising, and then only the target changes; when the
\* target exists and force is not set nothing is invoked and no file
\* changes; a re-run without force of a batch that completed changes no file.
C5_WriteWhenDue ==
    [][/\ AtItem =>
            /\ (calls' = calls + 1) <=> (~outdir[ItemTarget].exists \/ force)
            /\ (writes' = writes + 1) <=>
                  /\ ~outdir[ItemTarget].exists \/ force
                  /\ convert(database[Head(queue)[2]].data, num_points,
                             degree, unsmoother, TRUE).outcome = "ok"
            /\ calls' \in {calls, calls + 1}
            /\ writes' \in {writes, writes + 1}
            /\ writes' = writes => outdir' = outdir
            /\ writes' # writes => outdir'[ItemTarget].exists
            /\ \A o \in OutNames \ {ItemTarget} : outdir'[o] = outdir[o]
            /\ database' = database
       /\ (cmd = "download" /\ status = "running") =>
             /\ \A i \in 1..Len(jobs) :
                   /\ (jobs[i].pc = "check" /\ jobs'[i].pc # "check") =>
                         /\ jobs'[i].pc = "fetch" <=>
                               (~database[url_filename(queue[i])].exists
                                   \/ force)
                         /\ jobs'[i].pc \in {"fetch", "done"}
                         /\ calls' = calls
                         /\ database' = database
                   /\ (jobs[i].pc = "fetch" /\ jobs'[i].pc # "fetch") =>
                         /\ jobs'[i].pc \in {"write", "failed"}
                         /\ calls' = calls + 1
                         /\ database' = database
                   /\ (jobs[i].pc = "write" /\ jobs'[i].pc # "write") =>
                         /\ writes' = writes + 1
                         /\ database'[url_filename(queue[i])].exists
                         /\ \A nm \in DbNames \ {url_filename(queue[i])} :
                               database'[nm] = database[nm]
                   /\ jobs[i].pc \in {"done", "failed"} => jobs'[i] = jobs[i]
             /\ database' # database => \E i \in 1..Len(jobs) : jobs[i].pc = "write"
             /\ outdir' = outdir
       /\ (runs >= 2 /\ prev = "finished" /\ ~force) =>
             outdir' = outdir /\ database' = database /\ writes' = writes]_vars

\* A re-run of uniformize without force has ended; the first run wrote a
\* file for every conversion it invoked, and the re-run invoked none.
C5_Witness ==
    /\ cmd = "uniformize"
    /\ status = "finished"
    /\ runs = 2
    /\ prev = "finished"
    /\ ~force
    /\ writes >= 1
    /\ calls = writes
    /\ \E o \in OutNames : outdir[o] = StaleOutput

RECURSIVE uniformize_loop(_, _, _, _, _, _, _)
uniformize_loop(files, db, out, n, kk, sm, frc) ==
    IF files = <<>> THEN out
    ELSE Only({IF e.raised \in {"none", "ValueError"}
               THEN uniformize_loop(Tail(files), db, e.outdir, n, kk, sm, frc)
               ELSE e.outdir :
               e \in {export_as_bspline(out, Head(files),
                                        db[Head(files)[2]].data,
                                        n, kk, sm, frc, TRUE)}})

\* uniformize run to its end on a database directory and an output
\* directory: the output directory it leaves.
uniformize_final(db, out, n, kk, sm, frc) ==
    uniformize_loop(list_files_in_directory(db, ".dat"), db, out,
                    n, kk, sm, frc)

Range(q) == {q[i] : i \in 1..Len(q)}

\* C11 (as claimed): given the same options and the same database directory
\* the script selects the files that uniformize selects, gives each the
\* output file name that uniformize gives it, and, when it has ended, leaves
\* the output directory as uniformize leaves it.
C11_Claimed ==
    cmd = "script" =>
        /\ status = "running" =>
              /\ Range(queue) \subseteq
                     Range(list_files_in_directory(database, ".dat"))
              /\ \A f \in Range(queue) : bin_renaming(f) = rename_fn(f)
        /\ status \in {"finished", "aborted"} =>
              outdir = uniformize_final(db0, out0, num_points, degree,
                                        unsmoother, force)

\* On a database directory in which no file name begins with a dot, the
\* script, when it has ended, leaves the output directory as uniformize
\* leaves it.
SameFinalStateNoHidden ==
    (/\ cmd = "script"
     /\ status \in {"finished", "aborted"}
     /\ ~database[HiddenName].exists) =>
        outdir = uniformize_final(db0, out0, num_points, degree, unsmoother,
                                  force)

\* The output directory uniformize leaves is the one uniformize_final gives.
UniformizeFinal ==
    (cmd = "uniformize" /\ status \in {"finished", "aborted"}) =>
        outdir = uniformize_final(db0, out0, num_points, degree, unsmoother,
                                  force)

====
